---- MODULE Spec2Model ----
(***************************************************************************)
(* A model of the service registries of goletan/di.                        *)
(*                                                                         *)
(*   - the Container of internal/container/container.go: Register,         *)
(*     Resolve, MustResolve and Destroy, each broken into the steps at     *)
(*     which other goroutines can observe or change the two maps           *)
(*     (specification Spec);                                               *)
(*   - the legacy Container of di.go (specification LegacySpec).           *)
(*                                                                         *)
(* A goroutine is a thread of the model; a call is a walk of its pc        *)
(* through the labels of the method it runs.  sync.RWMutex is modelled by  *)
(* its holders: RLock is granted when no writer holds the lock, Lock when  *)
(* nobody holds it.                                                        *)
(***************************************************************************)
EXTENDS Naturals, Sequences, FiniteSets, TLC

(***************************************************************************)
(* Bounds of the model.                                                    *)
(***************************************************************************)
NumThreads == 2
MaxCalls == 3

Threads == 1..NumThreads
Names == {"a", "b"}

(***************************************************************************)
(* lifetime.go: the Lifetime enumeration (iota).                           *)
(***************************************************************************)
Singleton == 0
Transient == 1

(***************************************************************************)
(* serviceDefinition, and the zero value a missing map key reads as.       *)
(***************************************************************************)
ServiceDefinition(ctor, lifetime, hooks) ==
    [constructor |-> ctor, lifetime |-> lifetime, initHook |-> hooks, destroyHook |-> hooks]

\* The registrations the callers make: each lifetime with both hooks attached
\* (WithInitHook, WithDestroyHook) and with none.
ServiceDefinitions ==
    {ServiceDefinition("ctorA", Singleton, TRUE), ServiceDefinition("ctorB", Singleton, FALSE),
     ServiceDefinition("ctorA", Transient, TRUE), ServiceDefinition("ctorB", Transient, FALSE)}

ZeroDef ==
    [constructor |-> "nil", lifetime |-> 0, initHook |-> FALSE, destroyHook |-> FALSE]

(***************************************************************************)
(* Go values: the nil interface, the nil error, the error of fmt.Errorf,   *)
(* the message of the panic of MustResolve.  An instance is the pair of    *)
(* the constructor that built it and the serial number of the allocation   *)
(* (its identity).                                                         *)
(***************************************************************************)
Nil == <<>>
NoErr == <<>>
NotFoundErr(n) == <<"service", n, "not found">>
PanicMsg(e) == <<"failed to resolve service:", e>>
NewInstance(ctor, k) == <<ctor, k>>

(***************************************************************************)
(* Go maps as functions on the set of keys present.                        *)
(***************************************************************************)
EmptyMap == [x \in {} |-> Nil]
Exists_always(m, n) == TRUE
Exists(m, n) == n \in DOMAIN m
Found_never(m, n) == FALSE
Found(m, n) == n \in DOMAIN m
Get(m, n) == IF n \in DOMAIN m THEN m[n] ELSE ZeroDef
Put(m, n, v) == [x \in DOMAIN m \cup {n} |-> IF x = n THEN v ELSE m[x]]
Delete_nothing(m, n) == m
Delete_all(m, n) == [x \in {} |-> m[x]]
Delete(m, n) == [x \in DOMAIN m \ {n} |-> m[x]]

(***************************************************************************)
(* sync.RWMutex by its holders.                                            *)
(***************************************************************************)
Unlocked == [w |-> {}, r |-> {}]
CanRLock(m) == m.w = {}
CanLock(m) == m.w = {} /\ m.r = {}

IsSingleton_always(def) == TRUE
IsSingleton(def) == def.lifetime = Singleton
Failed_never(e) == FALSE
Failed(e) == e # NoErr
RunHook_never(tr, hook, ev) == tr
RunHook(tr, hook, ev) == IF hook THEN Append(tr, ev) ELSE tr

Has(tr, ev) == \E i \in DOMAIN tr : tr[i] = ev
Count(tr, ev) == Cardinality({i \in DOMAIN tr : tr[i] = ev})

VARIABLES
    names,         \* the names the callers pass (fixed in a run)
    callers,       \* per call frame: the frame whose hook or constructor makes its
                   \* calls, NoCaller for a goroutine of the application (fixed in a run)
    services,      \* Container.services
    instances,     \* Container.instances
    mu,            \* Container.mu
    pc,            \* per goroutine: where it stands in the method it runs
    op,            \* per goroutine: the method it runs
    name,          \* per goroutine: the name argument
    opt,           \* per goroutine: the definition Register builds (lines 41-48)
    serviceDef,    \* per goroutine: the local serviceDef
    exists,        \* per goroutine: the local exists
    instance,      \* per goroutine: the local instance
    res,           \* per goroutine: the instance Resolve returned
    err,           \* per goroutine: the error Resolve returned
    service,       \* per goroutine: what MustResolve returned
    panicMsg,      \* per goroutine: the value of the panic that ended it
    serial,        \* allocations so far (the identity of the next instance)
    calls,         \* calls started so far
    \* history of the run, read by the properties only
    trace,         \* per goroutine: hooks, constructor and map writes of its call
    interleaved,   \* per goroutine: Register/Destroy on its name since its call began
    cachedAtStart, \* per goroutine: the cached instance when its call began
    lookupAfterDestroy, \* per goroutine: its lookup ran after a Destroy returned
    clean,         \* per name: registered Singleton, nothing cached or in flight then
    ctorRuns,      \* per name: constructor runs since its last Register/Destroy
    initRuns,      \* per name: init hook runs since its last Register/Destroy
    destroyed,     \* per name: a Destroy returned and no Register stored since
    handedOut      \* instances Resolve has returned

tables == <<services, instances>>
callVars == <<op, name, opt, calls, cachedAtStart>>
locals == <<serviceDef, exists, instance>>
results == <<res, err, handedOut>>
mustVars == <<service, panicMsg>>
epochVars == <<clean, ctorRuns, initRuns, interleaved>>
cvars == <<services, instances, mu, pc, op, name, opt, serviceDef, exists, instance,
           res, err, service, panicMsg, serial, calls, trace, interleaved,
           cachedAtStart, lookupAfterDestroy, clean, ctorRuns, initRuns, destroyed,
           handedOut>>

\* The state of the legacy Container of di.go (modelled further down).
VARIABLES
    legacyServices,  \* Container.services (di.go)
    singletons,      \* Container.singletons
    legacyInstances, \* Container.instances (di.go)
    preInit,         \* Container.preInit
    postDestroy,     \* Container.postDestroy
    legacyMu,        \* Container.mu (di.go)
    lpc,             \* per goroutine: where it stands in the method it runs
    lop,             \* per goroutine: the method it runs
    lname,           \* per goroutine: the name argument
    lconstructor,    \* per goroutine: the local constructor of Resolve
    linstance,       \* per goroutine: the local instance of Resolve
    lres,            \* per goroutine: the value returned
    lerr,            \* per goroutine: the error returned
    lserial,         \* allocations so far
    lcalls,          \* calls started so far
    crashed,         \* the runtime has thrown a fatal error
    ltrace,          \* per goroutine: lock operations, hooks and constructor of its call
    ldestroyed       \* history, per name: a Destroy returned and no registration since

lvars == <<legacyServices, singletons, legacyInstances, preInit, postDestroy, legacyMu,
           lpc, lop, lname, lconstructor, linstance, lres, lerr, lserial, lcalls,
           crashed, ltrace, ldestroyed>>
ltables == <<legacyServices, singletons, legacyInstances, preInit, postDestroy>>
lcallVars == <<lop, lname, lcalls>>
lresults == <<lres, lerr>>

\* The state of the variant Container of unnamed/part_001 (modelled further
\* down): its one map holds pointers to serviceEntry values, which live on
\* the heap and carry their own instance field.
VARIABLES
    vservices,   \* Container.services: name -> pointer (an index of vheap)
    vheap,       \* the serviceEntry values allocated so far
    vwrites,     \* per serviceEntry: the writes of its instance field, <<writer, value>>
    vmu,         \* Container.mu
    vpc,         \* per goroutine: where it stands in the method it runs
    vop,         \* per goroutine: the method it runs
    vname,       \* per goroutine: the name argument
    vlifetime,   \* per goroutine: the lifetime argument of Register
    ventry,      \* per goroutine: the local entry (a pointer, 0 when nil)
    vinstance,   \* per goroutine: the local instance
    vres,        \* per goroutine: the instance returned
    verr,        \* per goroutine: the error returned
    vserial,     \* allocations so far
    vcalls,      \* calls started so far
    vfresh,      \* history, per goroutine: the entry of its name when its call
                 \* began, if no instance had been stored in it (else 0)
    vbuilt       \* history, per serviceEntry: the constructor runs of its resolutions

vvars == <<vservices, vheap, vwrites, vmu, vpc, vop, vname, vlifetime, ventry, vinstance,
           vres, verr, vserial, vcalls, vfresh, vbuilt>>
vtables == <<vservices, vheap, vwrites, vbuilt>>
vcallVars == <<vop, vname, vlifetime, vcalls, vfresh>>
vresults == <<vres, verr>>

program == <<names, callers>>
vars == <<program, cvars, lvars, vvars>>

NoCaller == 0

ResolveOps == {"Resolve", "MustResolve"}
Resting == {"idle", "done", "panicked"}

ContainerInit ==
    /\ services = EmptyMap
    /\ instances = EmptyMap
    /\ mu = Unlocked
    /\ pc = [t \in Threads |-> "idle"]
    /\ op = [t \in Threads |-> "none"]
    /\ name = [t \in Threads |-> "a"]
    /\ opt = [t \in Threads |-> ZeroDef]
    /\ serviceDef = [t \in Threads |-> ZeroDef]
    /\ exists = [t \in Threads |-> FALSE]
    /\ instance = [t \in Threads |-> Nil]
    /\ res = [t \in Threads |-> Nil]
    /\ err = [t \in Threads |-> NoErr]
    /\ service = [t \in Threads |-> Nil]
    /\ panicMsg = [t \in Threads |-> <<>>]
    /\ serial = 0
    /\ calls = 0
    /\ trace = [t \in Threads |-> <<>>]
    /\ interleaved = [t \in Threads |-> {}]
    /\ cachedAtStart = [t \in Threads |-> <<>>]
    /\ lookupAfterDestroy = [t \in Threads |-> FALSE]
    /\ clean = [n \in Names |-> FALSE]
    /\ ctorRuns = [n \in Names |-> 0]
    /\ initRuns = [n \in Names |-> 0]
    /\ destroyed = [n \in Names |-> FALSE]
    /\ handedOut = {}

\* Goroutine t of the container moves on to l; the containers of di.go and of
\* unnamed/part_001 are other objects and are not touched.
Goto(t, l) == pc' = [pc EXCEPT ![t] = l] /\ UNCHANGED <<program, lvars, vvars>>

(***************************************************************************)
(* A goroutine calls a method: its arguments and fresh locals.             *)
(***************************************************************************)
Begin(t, o, n, d, first) ==
    /\ pc[t] \in {"idle", "done"}
    /\ calls < MaxCalls
    /\ calls' = calls + 1
    /\ Goto(t, first)
    /\ op' = [op EXCEPT ![t] = o]
    /\ name' = [name EXCEPT ![t] = n]
    /\ opt' = [opt EXCEPT ![t] = d]
    /\ serviceDef' = [serviceDef EXCEPT ![t] = ZeroDef]
    /\ exists' = [exists EXCEPT ![t] = FALSE]
    /\ instance' = [instance EXCEPT ![t] = Nil]
    /\ res' = [res EXCEPT ![t] = Nil]
    /\ err' = [err EXCEPT ![t] = NoErr]
    /\ service' = [service EXCEPT ![t] = Nil]
    /\ panicMsg' = [panicMsg EXCEPT ![t] = <<>>]
    /\ trace' = [trace EXCEPT ![t] = <<>>]
    /\ interleaved' = [interleaved EXCEPT ![t] = {}]
    /\ cachedAtStart' = [cachedAtStart EXCEPT ![t] =
                            IF n \in DOMAIN instances THEN <<instances[n]>> ELSE <<>>]
    /\ lookupAfterDestroy' = [lookupAfterDestroy EXCEPT ![t] = FALSE]
    /\ UNCHANGED <<tables, mu, serial, clean, ctorRuns, initRuns, destroyed, handedOut>>

CallRegister(t) ==
    \E n \in names, d \in ServiceDefinitions : Begin(t, "Register", n, d, "glock")

CallResolve(t) == \E n \in names : Begin(t, "Resolve", n, ZeroDef, "rlock")

CallMustResolve(t) == \E n \in names : Begin(t, "MustResolve", n, ZeroDef, "rlock")

CallDestroy(t) == \E n \in names : Begin(t, "Destroy", n, ZeroDef, "dlock")

(***************************************************************************)
(* Another goroutine's Register or Destroy on name n takes effect: every   *)
(* call on n that has begun is marked, and n's counters start over.        *)
(***************************************************************************)
Mark(t, n, what) ==
    interleaved' = [u \in Threads |->
                      IF u # t /\ name[u] = n /\ pc[u] # "idle"
                      THEN interleaved[u] \cup {what} ELSE interleaved[u]]

InFlight(t, n) ==
    \E u \in Threads \ {t} :
        name[u] = n /\ op[u] \in ResolveOps /\ pc[u] \notin Resting

(***************************************************************************)
(* Register, lines 37-52.                                                  *)
(***************************************************************************)
\* line 38
RegisterLock(t) ==
    /\ pc[t] = "glock"
    /\ CanLock(mu)
    /\ mu' = [mu EXCEPT !.w = {t}]
    /\ Goto(t, "gstore")
    /\ UNCHANGED <<tables, callVars, locals, results, mustVars, serial, trace,
                   epochVars, lookupAfterDestroy, destroyed>>

\* lines 41-51, with the deferred Unlock of line 39
RegisterStore(t) ==
    /\ pc[t] = "gstore"
    /\ services' = Put(services, name[t], opt[t])
    /\ trace' = [trace EXCEPT ![t] = Append(@, "putSvc")]
    /\ Mark(t, name[t], "Register")
    /\ clean' = [clean EXCEPT ![name[t]] =
                    /\ opt[t].lifetime = Singleton
                    /\ name[t] \notin DOMAIN instances
                    /\ ~InFlight(t, name[t])]
    /\ ctorRuns' = [ctorRuns EXCEPT ![name[t]] = 0]
    /\ initRuns' = [initRuns EXCEPT ![name[t]] = 0]
    /\ destroyed' = [destroyed EXCEPT ![name[t]] = FALSE]
    /\ mu' = [mu EXCEPT !.w = {}]
    /\ Goto(t, "done")
    /\ UNCHANGED <<instances, callVars, locals, results, mustVars, serial,
                   lookupAfterDestroy>>

(***************************************************************************)
(* Resolve returns (inst, e) to its caller: to the goroutine itself, or to *)
(* MustResolve at line 107.                                                *)
(***************************************************************************)
Return(t, inst, e) ==
    /\ res' = [res EXCEPT ![t] = inst]
    /\ err' = [err EXCEPT ![t] = e]
    /\ handedOut' = IF e = NoErr THEN handedOut \cup {inst} ELSE handedOut
    /\ Goto(t, IF op[t] = "MustResolve" THEN "must" ELSE "done")

(***************************************************************************)
(* Resolve, lines 72-103.                                                  *)
(***************************************************************************)
\* line 73
ResolveRLock(t) ==
    /\ pc[t] = "rlock"
    /\ CanRLock(mu)
    /\ mu' = [mu EXCEPT !.r = @ \cup {t}]
    /\ Goto(t, "lookup")
    /\ UNCHANGED <<tables, callVars, locals, results, mustVars, serial, trace,
                   epochVars, lookupAfterDestroy, destroyed>>

\* lines 74-80 without the RUnlock of line 75: the call goes on to line 81
\* still holding its read lock
ResolveLookup_keepsReadLock(t) ==
    /\ pc[t] = "lookup"
    /\ serviceDef' = [serviceDef EXCEPT ![t] = Get(services, name[t])]
    /\ exists' = [exists EXCEPT ![t] = Exists(services, name[t])]
    /\ lookupAfterDestroy' = [lookupAfterDestroy EXCEPT ![t] = destroyed[name[t]]]
    /\ IF ~Exists(services, name[t])
       THEN Return(t, Nil, NotFoundErr(name[t]))
       ELSE /\ Goto(t, IF IsSingleton(Get(services, name[t])) THEN "lock" ELSE "tctor")
            /\ UNCHANGED results
    /\ UNCHANGED <<tables, mu, callVars, instance, mustVars, serial, trace, epochVars,
                   destroyed>>

\* lines 74-80: the lookup under the read lock, RUnlock, and the branch
ResolveLookup(t) ==
    /\ pc[t] = "lookup"
    /\ serviceDef' = [serviceDef EXCEPT ![t] = Get(services, name[t])]
    /\ exists' = [exists EXCEPT ![t] = Exists(services, name[t])]
    /\ mu' = [mu EXCEPT !.r = @ \ {t}]
    /\ lookupAfterDestroy' = [lookupAfterDestroy EXCEPT ![t] = destroyed[name[t]]]
    /\ IF ~Exists(services, name[t])
       THEN Return(t, Nil, NotFoundErr(name[t]))
       ELSE /\ Goto(t, IF IsSingleton(Get(services, name[t])) THEN "lock" ELSE "tctor")
            /\ UNCHANGED results
    /\ UNCHANGED <<tables, callVars, instance, mustVars, serial, trace, epochVars,
                   destroyed>>

\* line 81 taking the read lock where the code takes the exclusive one
ResolveLock_readLock(t) ==
    /\ pc[t] = "lock"
    /\ CanRLock(mu)
    /\ mu' = [mu EXCEPT !.r = @ \cup {t}]
    /\ Goto(t, "found")
    /\ UNCHANGED <<tables, callVars, locals, results, mustVars, serial, trace,
                   epochVars, lookupAfterDestroy, destroyed>>

\* line 81
ResolveLock(t) ==
    /\ pc[t] = "lock"
    /\ CanLock(mu)
    /\ mu' = [mu EXCEPT !.w = {t}]
    /\ Goto(t, "found")
    /\ UNCHANGED <<tables, callVars, locals, results, mustVars, serial, trace,
                   epochVars, lookupAfterDestroy, destroyed>>

\* lines 84-86, with the deferred Unlock of line 82 on the early return
ResolveFound(t) ==
    /\ pc[t] = "found"
    /\ IF Found(instances, name[t])
       THEN /\ Return(t, instances[name[t]], NoErr)
            /\ mu' = [mu EXCEPT !.w = {}]
       ELSE /\ Goto(t, "init")
            /\ UNCHANGED <<results, mu>>
    /\ UNCHANGED <<tables, callVars, locals, mustVars, serial, trace, epochVars,
                   lookupAfterDestroy, destroyed>>

\* lines 88-90
ResolveInit(t) ==
    /\ pc[t] = "init"
    /\ trace' = [trace EXCEPT ![t] = RunHook(@, serviceDef[t].initHook, "init")]
    /\ initRuns' = [initRuns EXCEPT ![name[t]] =
                       IF Has(trace'[t], "init") THEN @ + 1 ELSE @]
    /\ Goto(t, "ctor")
    /\ UNCHANGED <<tables, mu, callVars, locals, results, mustVars, serial, clean,
                   ctorRuns, interleaved, lookupAfterDestroy, destroyed>>

\* The call of a constructor with the Unlock of line 82 not deferred: the
\* panic of a nil func unwinds Resolve with the lock still held.
Construct_keepsLock(t, next) ==
    IF serviceDef[t].constructor = "nil"
    THEN /\ Goto(t, "panicked")
         /\ panicMsg' = [panicMsg EXCEPT ![t] = <<"nil pointer dereference">>]
         /\ UNCHANGED <<mu, instance, serial, trace, ctorRuns>>
    ELSE /\ Goto(t, next)
         /\ instance' = [instance EXCEPT ![t] =
                            NewInstance(serviceDef[t].constructor, serial)]
         /\ serial' = serial + 1
         /\ trace' = [trace EXCEPT ![t] = Append(@, "ctor")]
         /\ ctorRuns' = [ctorRuns EXCEPT ![name[t]] = @ + 1]
         /\ UNCHANGED <<panicMsg, mu>>

\* The call of a constructor; calling a nil func panics.
Construct(t, next) ==
    IF serviceDef[t].constructor = "nil"
    THEN /\ Goto(t, "panicked")
         /\ panicMsg' = [panicMsg EXCEPT ![t] = <<"nil pointer dereference">>]
         /\ mu' = [mu EXCEPT !.w = @ \ {t}]
         /\ UNCHANGED <<instance, serial, trace, ctorRuns>>
    ELSE /\ Goto(t, next)
         /\ instance' = [instance EXCEPT ![t] =
                            NewInstance(serviceDef[t].constructor, serial)]
         /\ serial' = serial + 1
         /\ trace' = [trace EXCEPT ![t] = Append(@, "ctor")]
         /\ ctorRuns' = [ctorRuns EXCEPT ![name[t]] = @ + 1]
         /\ UNCHANGED <<panicMsg, mu>>

\* line 91
ResolveCtor(t) ==
    /\ pc[t] = "ctor"
    /\ Construct(t, "store")
    /\ UNCHANGED <<tables, callVars, serviceDef, exists, results, service, clean,
                   initRuns, interleaved, lookupAfterDestroy, destroyed>>

\* lines 92-94, with the deferred Unlock of line 82
ResolveStore(t) ==
    /\ pc[t] = "store"
    /\ instances' = Put(instances, name[t], instance[t])
    /\ trace' = [trace EXCEPT ![t] = Append(@, "putInst")]
    /\ mu' = [mu EXCEPT !.w = {}]
    /\ Return(t, instance[t], NoErr)
    /\ UNCHANGED <<services, callVars, locals, mustVars, serial, epochVars,
                   lookupAfterDestroy, destroyed>>

\* line 97
TransientCtor(t) ==
    /\ pc[t] = "tctor"
    /\ Construct(t, "tinit")
    /\ UNCHANGED <<tables, callVars, serviceDef, exists, results, service, clean,
                   initRuns, interleaved, lookupAfterDestroy, destroyed>>

\* lines 98-102
TransientInit(t) ==
    /\ pc[t] = "tinit"
    /\ trace' = [trace EXCEPT ![t] = RunHook(@, serviceDef[t].initHook, "init")]
    /\ initRuns' = [initRuns EXCEPT ![name[t]] =
                       IF Has(trace'[t], "init") THEN @ + 1 ELSE @]
    /\ Return(t, instance[t], NoErr)
    /\ UNCHANGED <<tables, mu, callVars, locals, mustVars, serial, clean, ctorRuns,
                   interleaved, lookupAfterDestroy, destroyed>>

(***************************************************************************)
(* MustResolve, lines 106-112, after its call of Resolve has returned.     *)
(***************************************************************************)
MustResolveCheck(t) ==
    /\ pc[t] = "must"
    /\ IF Failed(err[t])
       THEN /\ Goto(t, "panicked")
            /\ panicMsg' = [panicMsg EXCEPT ![t] = PanicMsg(err[t])]
            /\ UNCHANGED service
       ELSE /\ Goto(t, "done")
            /\ service' = [service EXCEPT ![t] = res[t]]
            /\ UNCHANGED panicMsg
    /\ UNCHANGED <<tables, mu, callVars, locals, results, serial, trace, epochVars,
                   lookupAfterDestroy, destroyed>>

(***************************************************************************)
(* Destroy, lines 115-135.                                                 *)
(***************************************************************************)
\* line 116
DestroyLock(t) ==
    /\ pc[t] = "dlock"
    /\ CanLock(mu)
    /\ mu' = [mu EXCEPT !.w = {t}]
    /\ Goto(t, "dexists")
    /\ UNCHANGED <<tables, callVars, locals, results, mustVars, serial, trace,
                   epochVars, lookupAfterDestroy, destroyed>>

\* lines 119-125 with the destroy hook run whether or not an instance is cached
DestroyLookup_alwaysHook(t) ==
    /\ pc[t] = "dexists"
    /\ serviceDef' = [serviceDef EXCEPT ![t] = Get(services, name[t])]
    /\ exists' = [exists EXCEPT ![t] = Exists(services, name[t])]
    /\ Mark(t, name[t], "Destroy")
    /\ clean' = [clean EXCEPT ![name[t]] = FALSE]
    /\ ctorRuns' = [ctorRuns EXCEPT ![name[t]] = 0]
    /\ initRuns' = [initRuns EXCEPT ![name[t]] = 0]
    /\ IF ~Exists(services, name[t])
       THEN /\ Goto(t, "done")
            /\ mu' = [mu EXCEPT !.w = {}]
            /\ destroyed' = [destroyed EXCEPT ![name[t]] = TRUE]
       ELSE /\ Goto(t, "dhook")
            /\ UNCHANGED <<mu, destroyed>>
    /\ UNCHANGED <<tables, callVars, instance, results, mustVars, serial, trace,
                   lookupAfterDestroy>>

\* lines 119-125 without the early return of lines 120-123
DestroyLookup_noEarlyReturn(t) ==
    /\ pc[t] = "dexists"
    /\ serviceDef' = [serviceDef EXCEPT ![t] = Get(services, name[t])]
    /\ exists' = [exists EXCEPT ![t] = Exists(services, name[t])]
    /\ Mark(t, name[t], "Destroy")
    /\ clean' = [clean EXCEPT ![name[t]] = FALSE]
    /\ ctorRuns' = [ctorRuns EXCEPT ![name[t]] = 0]
    /\ initRuns' = [initRuns EXCEPT ![name[t]] = 0]
    /\ Goto(t, IF Found(instances, name[t]) THEN "dhook" ELSE "ddelsvc")
    /\ UNCHANGED <<tables, mu, destroyed, callVars, instance, results, mustVars, serial,
                   trace, lookupAfterDestroy>>

\* lines 119-125, with the deferred Unlock of line 117 on the early return
DestroyLookup(t) ==
    /\ pc[t] = "dexists"
    /\ serviceDef' = [serviceDef EXCEPT ![t] = Get(services, name[t])]
    /\ exists' = [exists EXCEPT ![t] = Exists(services, name[t])]
    /\ Mark(t, name[t], "Destroy")
    /\ clean' = [clean EXCEPT ![name[t]] = FALSE]
    /\ ctorRuns' = [ctorRuns EXCEPT ![name[t]] = 0]
    /\ initRuns' = [initRuns EXCEPT ![name[t]] = 0]
    /\ IF ~Exists(services, name[t])
       THEN /\ Goto(t, "done")
            /\ mu' = [mu EXCEPT !.w = {}]
            /\ destroyed' = [destroyed EXCEPT ![name[t]] = TRUE]
       ELSE /\ Goto(t, IF Found(instances, name[t]) THEN "dhook" ELSE "ddelsvc")
            /\ UNCHANGED <<mu, destroyed>>
    /\ UNCHANGED <<tables, callVars, instance, results, mustVars, serial, trace,
                   lookupAfterDestroy>>

\* lines 126-128
DestroyHook(t) ==
    /\ pc[t] = "dhook"
    /\ trace' = [trace EXCEPT ![t] = RunHook(@, serviceDef[t].destroyHook, "destroy")]
    /\ Goto(t, "ddelinst")
    /\ UNCHANGED <<tables, mu, callVars, locals, results, mustVars, serial,
                   epochVars, lookupAfterDestroy, destroyed>>

\* line 129
DestroyInstance(t) ==
    /\ pc[t] = "ddelinst"
    /\ instances' = Delete(instances, name[t])
    /\ trace' = [trace EXCEPT ![t] = Append(@, "delInst")]
    /\ Goto(t, "ddelsvc")
    /\ UNCHANGED <<services, mu, callVars, locals, results, mustVars, serial,
                   epochVars, lookupAfterDestroy, destroyed>>

\* lines 133-134, with the deferred Unlock of line 117
DestroyService(t) ==
    /\ pc[t] = "ddelsvc"
    /\ services' = Delete(services, name[t])
    /\ trace' = [trace EXCEPT ![t] = Append(@, "delSvc")]
    /\ mu' = [mu EXCEPT !.w = {}]
    /\ destroyed' = [destroyed EXCEPT ![name[t]] = TRUE]
    /\ Goto(t, "done")
    /\ UNCHANGED <<instances, callVars, locals, results, mustVars, serial,
                   epochVars, lookupAfterDestroy>>

Next ==
    \E t \in Threads :
        \/ CallRegister(t)
        \/ CallResolve(t)
        \/ CallMustResolve(t)
        \/ CallDestroy(t)
        \/ RegisterLock(t)
        \/ RegisterStore(t)
        \/ ResolveRLock(t)
        \/ ResolveLookup(t)
        \/ ResolveLock(t)
        \/ ResolveFound(t)
        \/ ResolveInit(t)
        \/ ResolveCtor(t)
        \/ ResolveStore(t)
        \/ TransientCtor(t)
        \/ TransientInit(t)
        \/ MustResolveCheck(t)
        \/ DestroyLock(t)
        \/ DestroyLookup(t)
        \/ DestroyHook(t)
        \/ DestroyInstance(t)
        \/ DestroyService(t)

\* A step of a call that goroutine t has begun.
Step(t) ==
    \/ RegisterLock(t)
    \/ RegisterStore(t)
    \/ ResolveRLock(t)
    \/ ResolveLookup(t)
    \/ ResolveLock(t)
    \/ ResolveFound(t)
    \/ ResolveInit(t)
    \/ ResolveCtor(t)
    \/ ResolveStore(t)
    \/ TransientCtor(t)
    \/ TransientInit(t)
    \/ MustResolveCheck(t)
    \/ DestroyLock(t)
    \/ DestroyLookup(t)
    \/ DestroyHook(t)
    \/ DestroyInstance(t)
    \/ DestroyService(t)

(***************************************************************************)
(* Hooks and constructors that call back into the container.  The call a   *)
(* hook or constructor makes runs in a frame of its own, on the goroutine  *)
(* of the Resolve or Destroy that runs the hook or constructor: that call  *)
(* stands at the hook or constructor until the nested call has returned,   *)
(* and a panic of the nested call unwinds it too (deferred Unlock).        *)
(***************************************************************************)
Bodies == {"init", "ctor", "tctor", "tinit", "dhook"}
Nested(t) == {u \in Threads : callers[u] = t}
MayCall(t) == IF callers[t] = NoCaller THEN TRUE ELSE pc[callers[t]] \in Bodies
MayStep(t) == \A u \in Nested(t) : pc[u] \in {"idle", "done"}

ReentrantCallRegister(t) == MayCall(t) /\ CallRegister(t)

ReentrantCallResolve(t) == MayCall(t) /\ CallResolve(t)

ReentrantCallMustResolve(t) == MayCall(t) /\ CallMustResolve(t)

ReentrantCallDestroy(t) == MayCall(t) /\ CallDestroy(t)

ReentrantStep(t) == MayStep(t) /\ Step(t)

PanicInBody(t) ==
    /\ pc[t] \in Bodies
    /\ \E u \in Nested(t) :
          /\ pc[u] = "panicked"
          /\ panicMsg' = [panicMsg EXCEPT ![t] = panicMsg[u]]
    /\ mu' = [mu EXCEPT !.w = @ \ {t}]
    /\ Goto(t, "panicked")
    /\ UNCHANGED <<tables, callVars, locals, results, service, serial, trace,
                   epochVars, lookupAfterDestroy, destroyed>>

ReentrantNext ==
    \E t \in Threads :
        \/ ReentrantCallRegister(t)
        \/ ReentrantCallResolve(t)
        \/ ReentrantCallMustResolve(t)
        \/ ReentrantCallDestroy(t)
        \/ ReentrantStep(t)
        \/ PanicInBody(t)

(***************************************************************************)
(* Constructors and hooks that abort.  Register takes any func value, the  *)
(* nil one included (lines 41-44 store it unchecked); calling it panics.   *)
(* A hook or constructor of the application may panic as well: the panic   *)
(* unwinds Resolve, running the deferred Unlock of line 82 if the call is  *)
(* on the Singleton path.                                                  *)
(***************************************************************************)
\* The registrations the callers of AbortSpec make: a nil constructor, and
\* under each lifetime a hooked service whose hook or constructor may panic.
AbortingDefinitions ==
    {ServiceDefinition("nil", Singleton, TRUE), ServiceDefinition("ctorA", Singleton, TRUE),
     ServiceDefinition("ctorA", Transient, TRUE)}

AbortPanic == <<"panic in a hook or constructor">>

CallRegisterAborting(t) ==
    \E n \in names, d \in AbortingDefinitions : Begin(t, "Register", n, d, "glock")

\* the init hook (lines 89, 99) or the constructor (lines 91, 97) panics
AbortInBody(t) ==
    /\ \/ pc[t] \in {"init", "tinit"} /\ serviceDef[t].initHook
       \/ pc[t] \in {"ctor", "tctor"}
    /\ panicMsg' = [panicMsg EXCEPT ![t] = AbortPanic]
    /\ mu' = [mu EXCEPT !.w = @ \ {t}]
    /\ Goto(t, "panicked")
    /\ UNCHANGED <<tables, callVars, locals, results, service, serial, trace,
                   epochVars, lookupAfterDestroy, destroyed>>

\* The callers call Register, Resolve and Destroy.
AbortNext ==
    \E t \in Threads :
        \/ CallRegisterAborting(t)
        \/ CallResolve(t)
        \/ CallDestroy(t)
        \/ RegisterLock(t)
        \/ RegisterStore(t)
        \/ ResolveRLock(t)
        \/ ResolveLookup(t)
        \/ ResolveLock(t)
        \/ ResolveFound(t)
        \/ ResolveInit(t)
        \/ ResolveCtor(t)
        \/ ResolveStore(t)
        \/ TransientCtor(t)
        \/ TransientInit(t)
        \/ DestroyLock(t)
        \/ DestroyLookup(t)
        \/ DestroyHook(t)
        \/ DestroyInstance(t)
        \/ DestroyService(t)
        \/ AbortInBody(t)

(***************************************************************************)
(* The legacy Container of di.go.  Its RWMutex is modelled by its state    *)
(* (a writer inside, and the count of readers inside), because Resolve     *)
(* releases a read lock it no longer holds: RUnlock with no reader inside  *)
(* is the runtime's fatal error "sync: RUnlock of unlocked RWMutex", which *)
(* ends the process; with another goroutine's reader inside it takes that  *)
(* reader's hold away.                                                     *)
(***************************************************************************)

LegacyUnlocked == [w |-> FALSE, r |-> 0]
\* a value handed to Register, and the func() interface{} of RegisterTransient
PlainService == "service"
TransientFunc == "func"
IsFunc(v) == v = TransientFunc
NotTransientErr(n) == <<"service", n, "is not a transient constructor">>

LegacyWriters ==
    {"Register", "RegisterSingleton", "RegisterPreInit", "RegisterPostDestroy",
     "RegisterTransient", "Destroy"}
LegacyOps == LegacyWriters \cup {"Resolve", "ResolveTransient"}

LegacyInit ==
    /\ legacyServices = EmptyMap
    /\ singletons = EmptyMap
    /\ legacyInstances = EmptyMap
    /\ preInit = EmptyMap
    /\ postDestroy = EmptyMap
    /\ legacyMu = LegacyUnlocked
    /\ lpc = [t \in Threads |-> "idle"]
    /\ lop = [t \in Threads |-> "none"]
    /\ lname = [t \in Threads |-> "a"]
    /\ lconstructor = [t \in Threads |-> "nil"]
    /\ linstance = [t \in Threads |-> Nil]
    /\ lres = [t \in Threads |-> Nil]
    /\ lerr = [t \in Threads |-> NoErr]
    /\ lserial = 0
    /\ lcalls = 0
    /\ crashed = FALSE
    /\ ltrace = [t \in Threads |-> <<>>]
    /\ ldestroyed = [n \in Names |-> FALSE]

\* Goroutine t of the legacy container moves on to l.
LGoto(t, l) == lpc' = [lpc EXCEPT ![t] = l] /\ UNCHANGED <<program, cvars, vvars>>
LLog(t, ev) == ltrace' = [ltrace EXCEPT ![t] = Append(@, ev)]
LLog2(t, e1, e2) == ltrace' = [ltrace EXCEPT ![t] = Append(Append(@, e1), e2)]

\* sync.RWMutex.RUnlock: fatal when no reader is inside
RUnlockFatal(m) == m.r = 0
RUnlocked(m) == [m EXCEPT !.r = @ - 1]

\* A return whose deferred RUnlock (line 70 or 139) runs last.
LReturnRUnlock(t, v, e) ==
    /\ lres' = [lres EXCEPT ![t] = v]
    /\ lerr' = [lerr EXCEPT ![t] = e]
    /\ IF RUnlockFatal(legacyMu)
       THEN /\ crashed' = TRUE
            /\ LGoto(t, "fatal")
            /\ UNCHANGED legacyMu
       ELSE /\ legacyMu' = RUnlocked(legacyMu)
            /\ LGoto(t, "done")
            /\ UNCHANGED crashed

LegacyCall(t) ==
    /\ ~crashed
    /\ lpc[t] \in {"idle", "done"}
    /\ lcalls < MaxCalls
    /\ \E o \in LegacyOps, n \in names :
          /\ lop' = [lop EXCEPT ![t] = o]
          /\ lname' = [lname EXCEPT ![t] = n]
          /\ LGoto(t, IF o \in LegacyWriters THEN "lock" ELSE "rlock")
    /\ lcalls' = lcalls + 1
    /\ lconstructor' = [lconstructor EXCEPT ![t] = "nil"]
    /\ linstance' = [linstance EXCEPT ![t] = Nil]
    /\ lres' = [lres EXCEPT ![t] = Nil]
    /\ lerr' = [lerr EXCEPT ![t] = NoErr]
    /\ ltrace' = [ltrace EXCEPT ![t] = <<>>]
    /\ UNCHANGED <<ldestroyed, ltables, legacyMu, lserial, crashed>>

\* c.mu.Lock() of lines 37, 45, 53, 61, 113, 130
LegacyLock(t) ==
    /\ ~crashed
    /\ lpc[t] = "lock"
    /\ ~legacyMu.w /\ legacyMu.r = 0
    /\ legacyMu' = [legacyMu EXCEPT !.w = TRUE]
    /\ LLog(t, "Lock")
    /\ LGoto(t, "body")
    /\ UNCHANGED <<ldestroyed, ltables, lcallVars, lconstructor, linstance, lresults, lserial, crashed>>

\* The body of a registration under the lock, with its deferred Unlock.
LegacyStore(t, o) ==
    /\ ~crashed
    /\ lpc[t] = "body" /\ lop[t] = o
    /\ legacyMu' = [legacyMu EXCEPT !.w = FALSE]
    /\ LLog(t, "Unlock")
    /\ LGoto(t, "done")
    /\ UNCHANGED <<lcallVars, lconstructor, linstance, lresults, lserial, crashed>>

\* lines 36-41
LegacyRegister(t) ==
    /\ LegacyStore(t, "Register")
    /\ legacyServices' = Put(legacyServices, lname[t], PlainService)
    /\ ldestroyed' = [ldestroyed EXCEPT ![lname[t]] = FALSE]
    /\ UNCHANGED <<singletons, legacyInstances, preInit, postDestroy>>

\* lines 44-49
RegisterSingleton(t) ==
    /\ LegacyStore(t, "RegisterSingleton")
    /\ singletons' = Put(singletons, lname[t], "ctor")
    /\ ldestroyed' = [ldestroyed EXCEPT ![lname[t]] = FALSE]
    /\ UNCHANGED <<legacyServices, legacyInstances, preInit, postDestroy>>

\* lines 52-57
RegisterPreInit(t) ==
    /\ LegacyStore(t, "RegisterPreInit")
    /\ preInit' = Put(preInit, lname[t], "fn")
    /\ UNCHANGED <<ldestroyed, legacyServices, singletons, legacyInstances, postDestroy>>

\* lines 60-65
RegisterPostDestroy(t) ==
    /\ LegacyStore(t, "RegisterPostDestroy")
    /\ postDestroy' = Put(postDestroy, lname[t], "fn")
    /\ UNCHANGED <<ldestroyed, legacyServices, singletons, legacyInstances, preInit>>

\* lines 129-134
RegisterTransient(t) ==
    /\ LegacyStore(t, "RegisterTransient")
    /\ legacyServices' = Put(legacyServices, lname[t], TransientFunc)
    /\ ldestroyed' = [ldestroyed EXCEPT ![lname[t]] = FALSE]
    /\ UNCHANGED <<singletons, legacyInstances, preInit, postDestroy>>

\* lines 112-126
LegacyDestroy(t) ==
    /\ ~crashed
    /\ lpc[t] = "body" /\ lop[t] = "Destroy"
    /\ legacyServices' = Delete(legacyServices, lname[t])
    /\ legacyInstances' = Delete(legacyInstances, lname[t])
    /\ ltrace' = [ltrace EXCEPT ![t] =
                     Append(IF Exists(legacyInstances, lname[t])
                            THEN RunHook(@, Exists(postDestroy, lname[t]), "postDestroy")
                            ELSE @, "Unlock")]
    /\ legacyMu' = [legacyMu EXCEPT !.w = FALSE]
    /\ ldestroyed' = [ldestroyed EXCEPT ![lname[t]] = TRUE]
    /\ LGoto(t, "done")
    /\ UNCHANGED <<singletons, preInit, postDestroy, lcallVars, lconstructor, linstance,
                   lresults, lserial, crashed>>

\* c.mu.RLock() of lines 69, 138
LegacyRLock(t) ==
    /\ ~crashed
    /\ lpc[t] = "rlock"
    /\ ~legacyMu.w
    /\ legacyMu' = [legacyMu EXCEPT !.r = @ + 1]
    /\ LLog(t, "RLock")
    /\ LGoto(t, IF lop[t] = "Resolve" THEN "check" ELSE "tbody")
    /\ UNCHANGED <<ldestroyed, ltables, lcallVars, lconstructor, linstance, lresults, lserial, crashed>>

\* Resolve, lines 73-76 and 95-99: the reads under the read lock
LegacyResolveCheck(t) ==
    /\ ~crashed
    /\ lpc[t] = "check"
    /\ IF Exists(singletons, lname[t])
       THEN IF Exists(legacyInstances, lname[t])
            THEN /\ LReturnRUnlock(t, legacyInstances[lname[t]], NoErr)
                 /\ LLog(t, "RUnlock")
                 /\ UNCHANGED lconstructor
            ELSE /\ lconstructor' = [lconstructor EXCEPT ![t] = singletons[lname[t]]]
                 /\ LGoto(t, "upgrade")
                 /\ UNCHANGED <<lresults, legacyMu, crashed, ltrace>>
       ELSE /\ IF Exists(legacyServices, lname[t])
               THEN LReturnRUnlock(t, legacyServices[lname[t]], NoErr)
               ELSE LReturnRUnlock(t, Nil, NotFoundErr(lname[t]))
            /\ LLog(t, "RUnlock")
            /\ UNCHANGED lconstructor
    /\ UNCHANGED <<ldestroyed, ltables, lcallVars, linstance, lserial>>

\* line 78: c.mu.RUnlock()
LegacyResolveRUnlock(t) ==
    /\ ~crashed
    /\ lpc[t] = "upgrade"
    /\ LLog(t, "RUnlock")
    /\ IF RUnlockFatal(legacyMu)
       THEN /\ crashed' = TRUE
            /\ LGoto(t, "fatal")
            /\ UNCHANGED legacyMu
       ELSE /\ legacyMu' = RUnlocked(legacyMu)
            /\ LGoto(t, "wlock")
            /\ UNCHANGED crashed
    /\ UNCHANGED <<ldestroyed, ltables, lcallVars, lconstructor, linstance, lresults, lserial>>

\* line 79: c.mu.Lock()
LegacyResolveLock(t) ==
    /\ ~crashed
    /\ lpc[t] = "wlock"
    /\ ~legacyMu.w /\ legacyMu.r = 0
    /\ legacyMu' = [legacyMu EXCEPT !.w = TRUE]
    /\ LLog(t, "Lock")
    /\ LGoto(t, "recheck")
    /\ UNCHANGED <<ldestroyed, ltables, lcallVars, lconstructor, linstance, lresults, lserial, crashed>>

\* lines 81-87: the second check and the pre-init hook
LegacyResolveRecheck(t) ==
    /\ ~crashed
    /\ lpc[t] = "recheck"
    /\ IF Exists(legacyInstances, lname[t])
       THEN /\ linstance' = [linstance EXCEPT ![t] = legacyInstances[lname[t]]]
            /\ LGoto(t, "unwind")
            /\ UNCHANGED ltrace
       ELSE /\ ltrace' = [ltrace EXCEPT ![t] =
                             RunHook(@, Exists(preInit, lname[t]), "preInit")]
            /\ LGoto(t, "construct")
            /\ UNCHANGED linstance
    /\ UNCHANGED <<ldestroyed, ltables, legacyMu, lcallVars, lconstructor, lresults, lserial, crashed>>

\* lines 88-90
LegacyResolveConstruct(t) ==
    /\ ~crashed
    /\ lpc[t] = "construct"
    /\ linstance' = [linstance EXCEPT ![t] = NewInstance(lconstructor[t], lserial)]
    /\ lserial' = lserial + 1
    /\ legacyInstances' = Put(legacyInstances, lname[t], NewInstance(lconstructor[t], lserial))
    /\ LLog(t, "ctor")
    /\ LGoto(t, "unwind")
    /\ UNCHANGED <<ldestroyed, legacyServices, singletons, preInit, postDestroy, legacyMu, lcallVars,
                   lconstructor, lresults, crashed>>

\* The return of lines 83 and 91: the deferred calls run last in, first out,
\* Unlock (line 80) and then RUnlock (line 70).
LegacyResolveUnlock(t) ==
    /\ ~crashed
    /\ lpc[t] = "unwind"
    /\ legacyMu' = [legacyMu EXCEPT !.w = FALSE]
    /\ LLog(t, "Unlock")
    /\ LGoto(t, "unwind2")
    /\ UNCHANGED <<ldestroyed, ltables, lcallVars, lconstructor, linstance, lresults, lserial, crashed>>

LegacyResolveDeferredRUnlock(t) ==
    /\ ~crashed
    /\ lpc[t] = "unwind2"
    /\ LReturnRUnlock(t, linstance[t], NoErr)
    /\ LLog(t, "RUnlock")
    /\ UNCHANGED <<ldestroyed, ltables, lcallVars, lconstructor, linstance, lserial>>

\* ResolveTransient, lines 141-150, with the deferred RUnlock of line 139
ResolveTransient(t) ==
    /\ ~crashed
    /\ lpc[t] = "tbody"
    /\ IF ~Exists(legacyServices, lname[t])
       THEN /\ LReturnRUnlock(t, Nil, NotFoundErr(lname[t]))
            /\ LLog(t, "RUnlock")
            /\ UNCHANGED lserial
       ELSE IF ~IsFunc(legacyServices[lname[t]])
       THEN /\ LReturnRUnlock(t, Nil, NotTransientErr(lname[t]))
            /\ LLog(t, "RUnlock")
            /\ UNCHANGED lserial
       ELSE /\ LReturnRUnlock(t, NewInstance(legacyServices[lname[t]], lserial), NoErr)
            /\ LLog2(t, "ctor", "RUnlock")
            /\ lserial' = lserial + 1
    /\ UNCHANGED <<ldestroyed, ltables, lcallVars, lconstructor, linstance>>

LegacyNext ==
    \E t \in Threads :
        \/ LegacyCall(t)
        \/ LegacyLock(t)
        \/ LegacyRegister(t)
        \/ RegisterSingleton(t)
        \/ RegisterPreInit(t)
        \/ RegisterPostDestroy(t)
        \/ RegisterTransient(t)
        \/ LegacyDestroy(t)
        \/ LegacyRLock(t)
        \/ LegacyResolveCheck(t)
        \/ LegacyResolveRUnlock(t)
        \/ LegacyResolveLock(t)
        \/ LegacyResolveRecheck(t)
        \/ LegacyResolveConstruct(t)
        \/ LegacyResolveUnlock(t)
        \/ LegacyResolveDeferredRUnlock(t)
        \/ ResolveTransient(t)

(***************************************************************************)
(* The variant Container of unnamed/part_001.  Register allocates a        *)
(* serviceEntry and stores the pointer to it; Resolve copies the pointer   *)
(* under the read lock and then reads and writes the entry's instance      *)
(* field holding no lock.  These accesses race: a read by one goroutine    *)
(* of a field another goroutine wrote, with no synchronisation between     *)
(* the two, may see that write or any value the field held before it.      *)
(***************************************************************************)
LifetimeSingleton == 0
LifetimeTransient == 1
LifetimeScoped == 2
LifetimeTypes == {LifetimeSingleton, LifetimeTransient, LifetimeScoped}

ServiceEntry(ctor, lifetime) ==
    [constructor |-> ctor, instance |-> Nil, lifetime |-> lifetime]
NoEntry == 0
VariantNotFoundErr(n) == <<"service not found: ", n>>

\* The values a read by goroutine t of the instance field of entry e may see:
\* the initial nil or any write, but none older than t's own last write.
Visible(t, e) ==
    LET w == vwrites[e]
        own == {i \in DOMAIN w : w[i][1] = t}
        lo == IF own = {} THEN 0 ELSE CHOOSE i \in own : \A j \in own : j <= i
    IN  {IF i = 0 THEN Nil ELSE w[i][2] : i \in lo..Len(w)}

VariantInit ==
    /\ vservices = EmptyMap
    /\ vheap = <<>>
    /\ vwrites = <<>>
    /\ vmu = Unlocked
    /\ vpc = [t \in Threads |-> "idle"]
    /\ vop = [t \in Threads |-> "none"]
    /\ vname = [t \in Threads |-> "a"]
    /\ vlifetime = [t \in Threads |-> LifetimeSingleton]
    /\ ventry = [t \in Threads |-> NoEntry]
    /\ vinstance = [t \in Threads |-> Nil]
    /\ vres = [t \in Threads |-> Nil]
    /\ verr = [t \in Threads |-> NoErr]
    /\ vserial = 0
    /\ vcalls = 0
    /\ vfresh = [t \in Threads |-> NoEntry]
    /\ vbuilt = <<>>

\* Goroutine t of the variant container moves on to l.
VGoto(t, l) == vpc' = [vpc EXCEPT ![t] = l] /\ UNCHANGED <<program, cvars, lvars>>

VariantBegin(t, o, n, lt, first) ==
    /\ vpc[t] \in {"idle", "done"}
    /\ vcalls < MaxCalls
    /\ vcalls' = vcalls + 1
    /\ VGoto(t, first)
    /\ vop' = [vop EXCEPT ![t] = o]
    /\ vname' = [vname EXCEPT ![t] = n]
    /\ vlifetime' = [vlifetime EXCEPT ![t] = lt]
    /\ ventry' = [ventry EXCEPT ![t] = NoEntry]
    /\ vinstance' = [vinstance EXCEPT ![t] = Nil]
    /\ vres' = [vres EXCEPT ![t] = Nil]
    /\ verr' = [verr EXCEPT ![t] = NoErr]
    /\ vfresh' = [vfresh EXCEPT ![t] =
                     IF Exists(vservices, n) /\ vwrites[vservices[n]] = <<>>
                     THEN vservices[n] ELSE NoEntry]
    /\ UNCHANGED <<vtables, vmu, vserial>>

VariantCallRegister(t) ==
    \E n \in names, lt \in LifetimeTypes : VariantBegin(t, "Register", n, lt, "lock")

VariantCallResolve(t) ==
    \E n \in names : VariantBegin(t, "Resolve", n, LifetimeSingleton, "rlock")

VariantCallMustResolve(t) ==
    \E n \in names : VariantBegin(t, "MustResolve", n, LifetimeSingleton, "rlock")

VariantCallDestroy(t) ==
    \E n \in names : VariantBegin(t, "Destroy", n, LifetimeSingleton, "lock")

\* c.mu.Lock() of lines 54, 95
VariantLock(t) ==
    /\ vpc[t] = "lock"
    /\ CanLock(vmu)
    /\ vmu' = [vmu EXCEPT !.w = {t}]
    /\ VGoto(t, "body")
    /\ UNCHANGED <<vtables, vcallVars, ventry, vinstance, vresults, vserial>>

\* Register, lines 57-61, with the deferred Unlock of line 55
VariantRegister(t) ==
    /\ vpc[t] = "body" /\ vop[t] = "Register"
    /\ vheap' = Append(vheap, ServiceEntry("ctor", vlifetime[t]))
    /\ vwrites' = Append(vwrites, <<>>)
    /\ vbuilt' = Append(vbuilt, 0)
    /\ vservices' = Put(vservices, vname[t], Len(vheap) + 1)
    /\ vmu' = [vmu EXCEPT !.w = {}]
    /\ VGoto(t, "done")
    /\ UNCHANGED <<vcallVars, ventry, vinstance, vresults, vserial>>

\* Destroy, lines 98-101, with the deferred Unlock of line 96
VariantDestroy(t) ==
    /\ vpc[t] = "body" /\ vop[t] = "Destroy"
    /\ vservices' = IF Exists(vservices, vname[t])
                    THEN Delete(vservices, vname[t]) ELSE vservices
    /\ vmu' = [vmu EXCEPT !.w = {}]
    /\ VGoto(t, "done")
    /\ UNCHANGED <<vheap, vwrites, vbuilt, vcallVars, ventry, vinstance, vresults, vserial>>

\* Resolve returns (inst, e): to the goroutine itself, or to MustResolve at
\* line 87.
VReturn(t, inst, e) ==
    /\ vres' = [vres EXCEPT ![t] = inst]
    /\ verr' = [verr EXCEPT ![t] = e]
    /\ VGoto(t, IF vop[t] = "MustResolve" THEN "must" ELSE "done")

\* line 65
VariantRLock(t) ==
    /\ vpc[t] = "rlock"
    /\ CanRLock(vmu)
    /\ vmu' = [vmu EXCEPT !.r = @ \cup {t}]
    /\ VGoto(t, "lookup")
    /\ UNCHANGED <<vtables, vcallVars, ventry, vinstance, vresults, vserial>>

\* lines 66-72: the lookup under the read lock, RUnlock, and the branch
VariantLookup(t) ==
    /\ vpc[t] = "lookup"
    /\ vmu' = [vmu EXCEPT !.r = @ \ {t}]
    /\ IF Exists(vservices, vname[t])
       THEN /\ ventry' = [ventry EXCEPT ![t] = vservices[vname[t]]]
            /\ VGoto(t, "check")
            /\ UNCHANGED vresults
       ELSE /\ VReturn(t, Nil, VariantNotFoundErr(vname[t]))
            /\ UNCHANGED ventry
    /\ UNCHANGED <<vtables, vcallVars, vinstance, vserial>>

\* lines 74-76: the unlocked read of entry.instance
VariantCheck(t) ==
    /\ vpc[t] = "check"
    /\ IF vheap[ventry[t]].lifetime = LifetimeSingleton
       THEN \E v \in Visible(t, ventry[t]) :
               IF v # Nil
               THEN VReturn(t, v, NoErr)
               ELSE VGoto(t, "ctor") /\ UNCHANGED vresults
       ELSE VGoto(t, "ctor") /\ UNCHANGED vresults
    /\ UNCHANGED <<vtables, vmu, vcallVars, ventry, vinstance, vserial>>

\* line 78
VariantConstruct(t) ==
    /\ vpc[t] = "ctor"
    /\ vinstance' = [vinstance EXCEPT ![t] =
                        NewInstance(vheap[ventry[t]].constructor, vserial)]
    /\ vserial' = vserial + 1
    /\ vbuilt' = [vbuilt EXCEPT ![ventry[t]] = @ + 1]
    /\ VGoto(t, "store")
    /\ UNCHANGED <<vservices, vheap, vwrites, vmu, vcallVars, ventry, vresults>>

\* lines 79-83: the unlocked write of entry.instance, and the return
VariantStore(t) ==
    /\ vpc[t] = "store"
    /\ IF vheap[ventry[t]].lifetime = LifetimeSingleton
       THEN /\ vheap' = [vheap EXCEPT ![ventry[t]].instance = vinstance[t]]
            /\ vwrites' = [vwrites EXCEPT ![ventry[t]] = Append(@, <<t, vinstance[t]>>)]
       ELSE UNCHANGED <<vheap, vwrites>>
    /\ VReturn(t, vinstance[t], NoErr)
    /\ UNCHANGED <<vservices, vbuilt, vmu, vcallVars, ventry, vinstance, vserial>>

\* MustResolve, lines 86-92, after its call of Resolve has returned: the
\* panic carries the error itself.
VariantMustResolve(t) ==
    /\ vpc[t] = "must"
    /\ VGoto(t, IF verr[t] # NoErr THEN "panicked" ELSE "done")
    /\ UNCHANGED <<vtables, vmu, vcallVars, ventry, vinstance, vresults, vserial>>

VariantNext ==
    \E t \in Threads :
        \/ VariantCallRegister(t)
        \/ VariantCallResolve(t)
        \/ VariantCallMustResolve(t)
        \/ VariantCallDestroy(t)
        \/ VariantLock(t)
        \/ VariantRegister(t)
        \/ VariantDestroy(t)
        \/ VariantRLock(t)
        \/ VariantLookup(t)
        \/ VariantCheck(t)
        \/ VariantConstruct(t)
        \/ VariantStore(t)
        \/ VariantMustResolve(t)

(***************************************************************************)
(* The programs: each specification runs one container and leaves the     *)
(* others as constructed.  The callers of Spec and LegacySpec use one name  *)
(* (the maps are keyed by name and the lock is the container's, so calls   *)
(* on one name meet every contention there is); those of TwoNameSpec use   *)
(* two.                                                                    *)
(***************************************************************************)
Containers == ContainerInit /\ LegacyInit /\ VariantInit

Init == names = {"a"} /\ callers = [t \in Threads |-> NoCaller] /\ Containers

TwoNameInit == names = Names /\ callers = [t \in Threads |-> NoCaller] /\ Containers

\* Frame 2 runs the calls that the hooks and constructors of frame 1 make.
ReentrantInit ==
    names = Names /\ callers = [t \in Threads |-> IF t = 2 THEN 1 ELSE NoCaller] /\ Containers

Spec == Init /\ [][Next]_vars

TwoNameSpec == TwoNameInit /\ [][Next]_vars

LegacySpec == Init /\ [][LegacyNext]_vars

VariantSpec == Init /\ [][VariantNext]_vars

ReentrantSpec == ReentrantInit /\ [][ReentrantNext]_vars

AbortSpec == Init /\ [][AbortNext]_vars

\* The Go scheduler: a goroutine that can take the next step of its call
\* (its constructor or hook returns, the lock it waits for is granted)
\* eventually takes it.  The callers are free to make no further call.
FairSpec == Spec /\ \A t \in Threads : WF_vars(Step(t))

(***************************************************************************)
(* Properties of the Container of internal/container/container.go          *)
(* (specification Spec).                                                   *)
(***************************************************************************)
Cached(n) == n \in DOMAIN instances
Before(tr, a, b) == \E i, j \in DOMAIN tr : i < j /\ tr[i] = a /\ tr[j] = b

\* Resolve has returned to goroutine t (or to MustResolve on its behalf).
Returned(t) == op[t] \in ResolveOps /\ pc[t] \in {"must", "done"}
\* The step in which Resolve returns to goroutine t.
Returns(t) ==
    op[t] \in ResolveOps /\ pc[t] \notin {"must", "done"} /\ pc'[t] \in {"must", "done"}
SawSingleton(t) == exists[t] /\ serviceDef[t].lifetime = Singleton
SawTransient(t) == exists[t] /\ serviceDef[t].lifetime = Transient

\* C1: for a name registered as Singleton with nothing cached and no Resolve of
\* it in flight, and with no Register or Destroy of the name since, the
\* constructor and the init hook have each run at most once (the hook never
\* if none is attached, and before the constructor otherwise); every Resolve
\* of the name that has returned with no Register or Destroy interleaved
\* returned the one cached instance with no error, the constructor and the
\* attached init hook having run exactly once.
C1_SingletonConstructedOnce ==
    \A n \in Names :
        clean[n] =>
            /\ n \in DOMAIN services
            /\ services[n].lifetime = Singleton
            /\ ctorRuns[n] <= 1
            /\ initRuns[n] <= (IF services[n].initHook THEN 1 ELSE 0)
            /\ services[n].initHook => ctorRuns[n] <= initRuns[n]
            /\ \A t \in Threads :
                  (Returned(t) /\ name[t] = n /\ interleaved[t] = {}) =>
                      /\ err[t] = NoErr
                      /\ Cached(n)
                      /\ res[t] = instances[n]
                      /\ ctorRuns[n] = 1
                      /\ initRuns[n] = (IF services[n].initHook THEN 1 ELSE 0)

\* Two Resolve calls of the same hooked singleton, both begun before anything
\* was cached, have both returned the same instance.
C1_Witness ==
    \E n \in Names : \E t1, t2 \in Threads :
        /\ t1 # t2 /\ clean[n] /\ services[n].initHook
        /\ Returned(t1) /\ Returned(t2)
        /\ name[t1] = n /\ name[t2] = n
        /\ interleaved[t1] = {} /\ interleaved[t2] = {}
        /\ cachedAtStart[t1] = <<>> /\ cachedAtStart[t2] = <<>>
        /\ res[t1] = res[t2] /\ res[t1] # Nil
        /\ initRuns[n] = 1

\* C2: the cached instance of a name is never replaced by another one (it only
\* goes away, by Destroy); and a Resolve that began when an instance was cached
\* and found the descriptor to be a Singleton returns that instance with no
\* error and without running the constructor, unless a Destroy of the name ran
\* since the call began.
C2_CachedInstanceReturned ==
    [][/\ \A n \in Names :
             (Cached(n) /\ n \in DOMAIN instances') => instances'[n] = instances[n]
       /\ \A t \in Threads :
             (/\ Returns(t)
              /\ SawSingleton(t)'
              /\ cachedAtStart[t] # <<>>
              /\ "Destroy" \notin interleaved[t]) =>
                 /\ err'[t] = NoErr
                 /\ res'[t] = cachedAtStart[t][1]
                 /\ ~Has(trace'[t], "ctor")]_vars

\* A Resolve begun after the instance was cached has returned it, and another
\* goroutine holds the same instance.
C2_Witness ==
    \E t, u \in Threads :
        /\ t # u /\ Returned(t) /\ Returned(u) /\ name[t] = name[u]
        /\ SawSingleton(t) /\ SawSingleton(u)
        /\ cachedAtStart[t] # <<>> /\ "Destroy" \notin interleaved[t]
        /\ res[t] = cachedAtStart[t][1]
        /\ res[u] = res[t] /\ Has(trace[u], "ctor")

\* C3: a Resolve that found a Transient descriptor returns, with no error, an
\* instance its own single constructor call built: one that no Resolve has
\* returned before and that is not in the instance table; the call writes
\* nothing to the instance table.
C3_TransientFresh ==
    [][\A t \in Threads :
          (Returns(t) /\ SawTransient(t)') =>
              /\ err'[t] = NoErr
              /\ res'[t] # Nil
              /\ res'[t] \notin handedOut
              /\ \A n \in DOMAIN instances' : instances'[n] # res'[t]
              /\ Count(trace'[t], "ctor") = 1
              /\ ~Has(trace'[t], "putInst")
              /\ instances' = instances]_vars

\* Two Resolve calls of one Transient name have returned different instances.
C3_Witness ==
    \E t1, t2 \in Threads :
        /\ t1 # t2 /\ Returned(t1) /\ Returned(t2) /\ name[t1] = name[t2]
        /\ SawTransient(t1) /\ SawTransient(t2)
        /\ err[t1] = NoErr /\ err[t2] = NoErr
        /\ res[t1] # Nil /\ res[t2] # Nil /\ res[t1] # res[t2]

\* C4: the lookup of a Resolve whose name has no descriptor ends the call: it
\* returns the nil instance and the not-found error, has run no constructor
\* and no hook, and leaves both tables as they were.
C4_ResolveUnregistered ==
    [][\A t \in Threads :
          (/\ op[t] \in ResolveOps /\ pc[t] = "lookup" /\ pc'[t] # "lookup"
           /\ name[t] \notin DOMAIN services) =>
              /\ pc'[t] \in {"must", "done"}
              /\ res'[t] = Nil
              /\ err'[t] = <<"service", name[t], "not found">>
              /\ trace'[t] = <<>>
              /\ serial' = serial
              /\ services' = services
              /\ instances' = instances]_vars

\* A Resolve of a name without a descriptor has returned the error.
C4_Witness ==
    \E t \in Threads :
        /\ op[t] = "Resolve" /\ pc[t] = "done" /\ ~exists[t]
        /\ err[t] = NotFoundErr(name[t]) /\ res[t] = Nil /\ trace[t] = <<>>

\* C5 as claimed: every Resolve(name) that returns after a Destroy(name) has
\* returned and before a new Register(name), the calls already in progress
\* included, fails with the not-found error.
C5_Original ==
    [][\A t \in Threads :
          (Returns(t) /\ destroyed[name[t]]) => err'[t] = NotFoundErr(name[t])]_vars

\* C5, amended: every Resolve(name) whose lookup of the descriptor happens
\* after a Destroy(name) has returned and before a new Register(name) fails
\* with the not-found error and returns the nil instance.
C5_ResolveAfterDestroy ==
    \A t \in Threads :
        (Returned(t) /\ lookupAfterDestroy[t]) =>
            err[t] = NotFoundErr(name[t]) /\ res[t] = Nil

\* A Resolve that looked the name up after a Destroy had removed its
\* descriptor has returned.
C5_Witness ==
    \E t, u \in Threads :
        /\ Returned(t) /\ lookupAfterDestroy[t]
        /\ op[u] = "Destroy" /\ pc[u] = "done" /\ name[u] = name[t]
        /\ Has(trace[u], "delSvc")

\* C6: in a call that found a Singleton with both hooks, the constructor runs
\* only after the init hook has, and Destroy removes the cached instance only
\* after the destroy hook has run, and the descriptor only after the instance.
C6_HookOrder ==
    \A t \in Threads :
        (SawSingleton(t) /\ serviceDef[t].initHook /\ serviceDef[t].destroyHook) =>
            /\ (op[t] \in ResolveOps /\ Has(trace[t], "ctor")) =>
                   Before(trace[t], "init", "ctor")
            /\ (op[t] = "Destroy" /\ Has(trace[t], "delInst")) =>
                   Before(trace[t], "destroy", "delInst")
            /\ (op[t] = "Destroy" /\ Has(trace[t], "delInst") /\ Has(trace[t], "delSvc")) =>
                   Before(trace[t], "delInst", "delSvc")

\* A first resolution of a hooked singleton and a Destroy of its cached
\* instance have both completed.
C6_Witness ==
    \E t, u \in Threads :
        /\ t # u /\ name[t] = name[u]
        /\ op[t] = "Resolve" /\ pc[t] = "done"
        /\ trace[t] = <<"init", "ctor", "putInst">>
        /\ op[u] = "Destroy" /\ pc[u] = "done"
        /\ trace[u] = <<"destroy", "delInst", "delSvc">>

\* C7: the lookup of a Destroy whose name has no descriptor ends the call with
\* no error or panic, no hook run, the lock released and both tables as they
\* were; and when a Destroy returns its name has no descriptor, so that a
\* second Destroy of the name is such a call.
C7_DestroyUnregistered ==
    [][\A t \in Threads :
          /\ (/\ op[t] = "Destroy" /\ pc[t] = "dexists" /\ pc'[t] # "dexists"
              /\ name[t] \notin DOMAIN services) =>
                 /\ pc'[t] = "done"
                 /\ trace'[t] = <<>>
                 /\ err'[t] = NoErr /\ panicMsg'[t] = <<>>
                 /\ mu' = Unlocked
                 /\ services' = services
                 /\ instances' = instances
          /\ (op[t] = "Destroy" /\ pc[t] # "done" /\ pc'[t] = "done") =>
                 name[t] \notin DOMAIN services']_vars

\* A Destroy of a name that an earlier Destroy had unregistered has returned.
C7_Witness ==
    \E t, u \in Threads :
        /\ t # u /\ name[t] = name[u]
        /\ op[t] = "Destroy" /\ pc[t] = "done" /\ ~exists[t] /\ trace[t] = <<>>
        /\ op[u] = "Destroy" /\ pc[u] = "done" /\ Has(trace[u], "delSvc")

\* C8 as claimed: no name whose descriptor is Transient has an entry in the
\* instance table.
C8_TransientNeverCached ==
    \A n \in DOMAIN services : services[n].lifetime = Transient => ~Cached(n)

\* C9: when Resolve has returned to MustResolve, MustResolve panics with the
\* message carrying the error if the error is not nil, and otherwise returns
\* the instance Resolve returned; either way it changes neither table nor
\* the lock.
C9_MustResolve ==
    [][\A t \in Threads :
          (pc[t] = "must" /\ pc'[t] # "must") =>
              /\ op[t] = "MustResolve"
              /\ (err[t] # NoErr) <=> (pc'[t] = "panicked")
              /\ (err[t] = NoErr) <=> (pc'[t] = "done")
              /\ (err[t] # NoErr) =>
                     panicMsg'[t] = <<"failed to resolve service:", err[t]>>
              /\ (err[t] = NoErr) => service'[t] = res[t] /\ panicMsg'[t] = <<>>
              /\ services' = services /\ instances' = instances /\ mu' = mu]_vars

\* One MustResolve has panicked on a missing name and another has returned an
\* instance.
C9_Witness ==
    \E t, u \in Threads :
        /\ op[t] = "MustResolve" /\ pc[t] = "panicked"
        /\ panicMsg[t] = PanicMsg(NotFoundErr(name[t]))
        /\ op[u] = "MustResolve" /\ pc[u] = "done"
        /\ service[u] # Nil /\ service[u] = res[u]

\* C12: every Register, Resolve and Destroy call that has begun eventually
\* returns, whatever the other goroutines do; and whenever no call is in
\* progress the lock is free (no writer and no reader inside).
C12_NoDeadlock ==
    /\ \A t \in Threads :
          (op[t] \in {"Register", "Resolve", "Destroy"} /\ pc[t] # "done")
              ~> (pc[t] = "done")
    /\ []((\A t \in Threads : pc[t] \in Resting) => mu = Unlocked)

\* All the calls have been made and have returned, one of them a first
\* resolution of a singleton that another goroutine's Register or Destroy of
\* the name ran across; the lock is free.
C12_Witness ==
    /\ calls = MaxCalls
    /\ \A t \in Threads : pc[t] = "done"
    /\ mu = Unlocked
    /\ \E t \in Threads :
          op[t] = "Resolve" /\ interleaved[t] # {} /\ Has(trace[t], "putInst")

\* C13 as claimed: every name with an entry in the instance table has a
\* descriptor in the descriptor table.
C13_InstanceHasDescriptor ==
    \A n \in DOMAIN instances : n \in DOMAIN services

\* C14 as claimed: when a Register(name) returns, the instance table has no
\* entry for name, and the call has run no destroy hook; and a Resolve that
\* returns an instance with no Register or Destroy of its name since it began
\* returns one built by the constructor of the descriptor it found.
C14_RegisterEvicts ==
    [][\A t \in Threads :
          /\ (op[t] = "Register" /\ pc[t] = "gstore" /\ pc'[t] = "done") =>
                 /\ name[t] \notin DOMAIN instances'
                 /\ ~Has(trace'[t], "destroy")
          /\ (Returns(t) /\ exists'[t] /\ interleaved[t] = {}) =>
                 res'[t] # Nil /\ res'[t][1] = serviceDef'[t].constructor]_vars

\* C16: a call that is to invoke, or has invoked, the constructor on the
\* Transient path (lines 97-102) holds neither the read lock nor the
\* exclusive lock.
C16_TransientCtorUnlocked ==
    \A t \in Threads :
        pc[t] \in {"tctor", "tinit"} =>
            /\ SawTransient(t)
            /\ t \notin mu.w /\ t \notin mu.r

\* A Transient constructor is about to run while another goroutine is inside
\* Register or Destroy with the exclusive lock.
C16_Witness ==
    \E t, u \in Threads :
        /\ t # u /\ pc[t] = "tctor" /\ SawTransient(t)
        /\ mu.w = {u} /\ op[u] \in {"Register", "Destroy"}

\* C17 as claimed: a Resolve of a Singleton that began with the instance
\* cached, with no Register or Destroy of the name since, never holds the
\* exclusive lock.
C17_CachedResolveReadLockOnly ==
    \A t \in Threads :
        (/\ op[t] \in ResolveOps /\ SawSingleton(t)
         /\ cachedAtStart[t] # <<>> /\ interleaved[t] = {}) =>
            t \notin mu.w

\* C18 as claimed: in a Resolve that found a Transient descriptor with an
\* init hook, the constructor runs only after the init hook has run, and
\* when the call has returned each has run exactly once.
C18_TransientInitBeforeCtor ==
    \A t \in Threads :
        (op[t] \in ResolveOps /\ SawTransient(t) /\ serviceDef[t].initHook) =>
            /\ Has(trace[t], "ctor") => Before(trace[t], "init", "ctor")
            /\ Returned(t) =>
                   Count(trace[t], "init") = 1 /\ Count(trace[t], "ctor") = 1

\* C19: a Destroy of a registered name goes on to the destroy hook exactly
\* when an instance is cached for the name at its lookup, which it makes
\* holding the exclusive lock; the hook runs only from there, with the
\* instance still cached, and at most once; and when the Destroy returns,
\* the name has neither descriptor nor instance, and the destroy hook the
\* descriptor carries has run once if the instance was cached (and has been
\* removed by the call) and not at all otherwise.
C19_DestroyHookOnce ==
    [][\A t \in Threads :
          op[t] = "Destroy" =>
              /\ (pc[t] = "dexists" /\ pc'[t] # "dexists" /\ name[t] \in DOMAIN services) =>
                     /\ mu.w = {t}
                     /\ pc'[t] = (IF Cached(name[t]) THEN "dhook" ELSE "ddelsvc")
                     /\ trace'[t] = <<>>
              /\ Count(trace'[t], "destroy") > Count(trace[t], "destroy") =>
                     /\ pc[t] = "dhook" /\ mu.w = {t}
                     /\ Cached(name[t])
                     /\ trace'[t] = <<"destroy">>
              /\ (pc[t] = "ddelsvc" /\ pc'[t] = "done") =>
                     /\ name[t] \notin DOMAIN services'
                     /\ name[t] \notin DOMAIN instances'
                     /\ mu' = Unlocked
                     /\ Count(trace'[t], "destroy") =
                            (IF serviceDef[t].destroyHook /\ Has(trace'[t], "delInst")
                             THEN 1 ELSE 0)]_vars

\* A Destroy has run the destroy hook of a hooked singleton whose instance
\* was cached, removed instance and descriptor, and returned; the lock is
\* free and the name is in neither table.
C19_Witness ==
    \E t \in Threads :
        /\ op[t] = "Destroy" /\ pc[t] = "done" /\ exists[t]
        /\ serviceDef[t].destroyHook /\ cachedAtStart[t] # <<>>
        /\ Count(trace[t], "destroy") = 1 /\ Has(trace[t], "delInst")
        /\ name[t] \notin DOMAIN services /\ name[t] \notin DOMAIN instances
        /\ mu = Unlocked

(***************************************************************************)
(* Calls on two names (specification TwoNameSpec).                         *)
(***************************************************************************)

\* What map m holds for name n, if anything.
Entry(m, n) == IF n \in DOMAIN m THEN <<m[n]>> ELSE <<>>

\* C22: a step of a call on name n leaves the descriptor and the instance
\* table entry of every other name as they were.
C22_OtherNamesUntouched ==
    [][\A t \in Threads :
          pc'[t] # pc[t] =>
              \A m \in Names \ {name[t]} :
                  /\ Entry(services', m) = Entry(services, m)
                  /\ Entry(instances', m) = Entry(instances, m)]_vars

\* A first resolution of one name has cached its instance while the other
\* name is registered: the other name still has its descriptor and nothing
\* cached.
C22_Witness ==
    \E t \in Threads : \E m \in Names \ {name[t]} :
        /\ op[t] = "Resolve" /\ pc[t] = "done" /\ Has(trace[t], "putInst")
        /\ Cached(name[t])
        /\ m \in DOMAIN services /\ ~Cached(m)

(***************************************************************************)
(* Constructors and hooks that abort (specification AbortSpec).            *)
(***************************************************************************)

\* Resolve of goroutine t is unwound by a panic in this step.
Aborts(t) == op[t] = "Resolve" /\ pc[t] # "panicked" /\ pc'[t] = "panicked"

\* Some call is in progress and no goroutine can take a step.
Stuck ==
    /\ \E t \in Threads : pc[t] \notin Resting
    /\ \A t \in Threads : ~ENABLED Step(t)

\* C23: a Register with a nil constructor stores its descriptor and returns
\* like any other; only a Resolve ever ends in a panic, and it does so at
\* its hook or constructor; when a Resolve on the Singleton path panics
\* there, no instance is cached for its name, the instance table is as it
\* was, and the lock is free; no goroutine that has panicked holds the
\* lock, and the calls in progress are never all blocked.
C23_AbortLeavesContainerUsable ==
    [][/\ \A t \in Threads :
             /\ (op[t] = "Register" /\ pc[t] = "gstore" /\ pc'[t] # "gstore") =>
                    /\ pc'[t] = "done"
                    /\ name[t] \in DOMAIN services' /\ services'[name[t]] = opt[t]
                    /\ panicMsg'[t] = <<>>
             /\ pc'[t] = "panicked" => op[t] = "Resolve"
             /\ Aborts(t) => pc[t] \in {"init", "ctor", "tinit", "tctor"}
             /\ (Aborts(t) /\ pc[t] \in {"init", "ctor"}) =>
                    /\ mu.w = {t}
                    /\ name[t] \notin DOMAIN instances'
                    /\ instances' = instances
                    /\ mu' = Unlocked
             /\ pc'[t] = "panicked" => t \notin mu'.w /\ t \notin mu'.r
       /\ ~Stuck']_vars

\* A Resolve of a Singleton registered with a nil constructor has panicked
\* after its init hook ran, nothing is cached for the name, and another
\* goroutine's Register of the name now holds the write lock: it took the
\* lock after the panic, since the aborted Resolve held it until then.
C23_Witness ==
    \E t, u \in Threads :
        /\ t # u /\ name[t] = name[u]
        /\ op[t] = "Resolve" /\ pc[t] = "panicked"
        /\ serviceDef[t].constructor = "nil" /\ serviceDef[t].lifetime = Singleton
        /\ trace[t] = <<"init">>
        /\ name[t] \notin DOMAIN instances
        /\ op[u] = "Register" /\ pc[u] = "gstore" /\ mu.w = {u}
        /\ ENABLED RegisterStore(u)

(***************************************************************************)
(* Hooks and constructors that call the container (specification           *)
(* ReentrantSpec).                                                         *)
(***************************************************************************)

\* The call of frame u was made by the init hook or the constructor of a
\* first resolution of a Singleton, and has not returned.
NestedInSingleton(u) ==
    /\ callers[u] # NoCaller
    /\ pc[callers[u]] \in {"init", "ctor"}
    /\ pc[u] \notin Resting

\* C20: while a Resolve, MustResolve, Register or Destroy made by the init
\* hook or the constructor of a first Singleton resolution has not returned,
\* the outer Resolve holds the exclusive lock, the nested call waits for
\* the lock at its first statement, and neither ever moves: the nested call
\* does not return, nor does the hook or constructor that made it.
C20_ReentrantDeadlock ==
    [][\A u \in Threads :
          NestedInSingleton(u) =>
              /\ mu.w = {callers[u]}
              /\ pc[u] \in {"rlock", "glock", "dlock"}
              /\ pc'[u] = pc[u]
              /\ pc'[callers[u]] = pc[callers[u]]
              /\ mu' = mu]_vars

\* The constructor of a first Singleton resolution has called Resolve, which
\* waits for the read lock while the outer Resolve holds the exclusive one;
\* no goroutine of the application is left that could release it.
C20_Witness ==
    \E u \in Threads :
        /\ NestedInSingleton(u)
        /\ pc[callers[u]] = "ctor" /\ op[u] = "Resolve" /\ pc[u] = "rlock"
        /\ mu.w = {callers[u]}
        /\ ~ENABLED ReentrantStep(u) /\ ~ENABLED ReentrantStep(callers[u])

(***************************************************************************)
(* Properties of the legacy Container of di.go (specification LegacySpec). *)
(***************************************************************************)

\* C10 as claimed: a Resolve that finds its name registered with
\* RegisterSingleton and not yet instantiated completes normally: no fatal
\* error, and once it has returned, a nil error, the constructed instance, and
\* as many RUnlock as RLock and as many Unlock as Lock.
C10_FirstResolveCompletes ==
    \A t \in Threads :
        (lop[t] = "Resolve" /\ lconstructor[t] # "nil") =>
            /\ lpc[t] # "fatal"
            /\ lpc[t] = "done" =>
                   /\ lerr[t] = NoErr
                   /\ lres[t] = linstance[t] /\ lres[t] # Nil
                   /\ Count(ltrace[t], "RUnlock") = Count(ltrace[t], "RLock")
                   /\ Count(ltrace[t], "Unlock") = Count(ltrace[t], "Lock")

\* C11 as claimed: once a Destroy(name) has returned and until the name is
\* registered again (Register, RegisterTransient or RegisterSingleton), the
\* reads of a Resolve(name) end the call with the nil value and the not-found
\* error.
C11_LegacyResolveAfterDestroy ==
    [][\A t \in Threads :
          (/\ lop[t] = "Resolve" /\ lpc[t] = "check" /\ lpc'[t] # "check"
           /\ ldestroyed[lname[t]]) =>
              /\ lpc'[t] = "done"
              /\ lres'[t] = Nil
              /\ lerr'[t] = NotFoundErr(lname[t])]_vars

(***************************************************************************)
(* Properties of the variant Container of unnamed/part_001 (specification  *)
(* VariantSpec).                                                           *)
(***************************************************************************)

\* C15 as claimed: the constructor of a Singleton entry runs at most once,
\* and two Resolve calls of a name that both began before any instance was
\* stored in its Singleton entry, and both resolved that entry, have
\* returned the same instance.
C15_VariantSingletonOnce ==
    /\ \A e \in DOMAIN vheap :
          vheap[e].lifetime = LifetimeSingleton => vbuilt[e] <= 1
    /\ \A t, u \in Threads :
          (/\ t # u
           /\ vop[t] = "Resolve" /\ vop[u] = "Resolve"
           /\ vpc[t] = "done" /\ vpc[u] = "done"
           /\ ventry[t] # NoEntry /\ ventry[t] = ventry[u]
           /\ vfresh[t] = ventry[t] /\ vfresh[u] = ventry[u]
           /\ vheap[ventry[t]].lifetime = LifetimeSingleton) =>
              verr[t] = NoErr /\ verr[u] = NoErr /\ vres[t] = vres[u]


\* C21 as claimed: a Resolve that found an entry of the Scoped lifetime does
\* not invoke the constructor, and returns the nil instance and an error.
C21_ScopedUnsupported ==
    \A t \in Threads :
        (/\ vop[t] \in {"Resolve", "MustResolve"}
         /\ ventry[t] # NoEntry
         /\ vheap[ventry[t]].lifetime = LifetimeScoped) =>
            /\ vinstance[t] = Nil
            /\ vpc[t] \in {"must", "done", "panicked"} =>
                   verr[t] # NoErr /\ vres[t] = Nil

====
